---- MODULE Spec2Model ----
(***************************************************************************)
(* The Nim onboarding animation (src/animations/nim_onboarding.py) as a    *)
(* state machine.  A run is the renderer executing the construct method of *)
(* one Scene subclass: the interpreter below walks the method bodies one   *)
(* directive at a time (object construction, self.play, self.wait, a call  *)
(* of another method) and keeps the Scene's list of on-stage mobjects the  *)
(* way Scene.add / Scene.remove of the animation library keep it.          *)
(*                                                                         *)
(* Transliteration of the literals: the pound sign is written GBP, the two *)
(* emoji by their code points, the check mark as "v".                      *)
(***************************************************************************)
EXTENDS Integers, Sequences, FiniteSets, TLC

VARIABLES
    scene_class,   \* the Scene subclass the render tool was pointed at
    globals,       \* the module-level names NIM_BLUE .. SPACING_XS
    background,    \* self.camera.background_color
    heap,          \* the Mobjects constructed so far: id -> record
    mobjects,      \* self.mobjects, the top-level on-stage list
    stack,         \* call stack of frames [proc, pc, args]
    status,        \* "running", "done" (construct returned), "aborted"
    exc,           \* where the unhandled exception was raised, if any
    log            \* the directives executed so far, in order

vars == <<scene_class, globals, background, heap, mobjects, stack, status, exc, log>>

(***************************************************************************)
(* Module level: the colour palette, typography and spacing (lines 15-39). *)
(* Spacings are kept in hundredths.                                        *)
(***************************************************************************)
ModuleGlobals ==
    [ NIM_BLUE |-> "#007AFF", NIM_GREEN |-> "#34C759", NIM_RED |-> "#FF3B30",
      NIM_ORANGE |-> "#FF9500", NIM_PURPLE |-> "#AF52DE", NIM_TEAL |-> "#5AC8FA",
      NIM_GRAY |-> "#8E8E93", NIM_DARK |-> "#1C1C1E", NIM_LIGHT |-> "#F2F2F7",
      FONT_TITLE |-> 56, FONT_HEADING |-> 40, FONT_SUBHEADING |-> 28,
      FONT_BODY |-> 22, FONT_SMALL |-> 18, FONT_CAPTION |-> 14,
      SPACING_XL |-> 100, SPACING_LG |-> 60, SPACING_MD |-> 40,
      SPACING_SM |-> 25, SPACING_XS |-> 15 ]

(***************************************************************************)
(* Python floats: IEEE-754 binary64, round to nearest, ties to even.  A    *)
(* float is [m, e] with value m * 2^e, m a 53-bit natural kept as a        *)
(* little-endian sequence of 15-bit limbs (zero is the empty mantissa).    *)
(* Only what the script uses: non-negative literals, *, int(), ==, >.      *)
(* The operations are functions, so that an argument is a value by the     *)
(* time the body reads it.                                                 *)
(***************************************************************************)
MANT_DIG == 53

LIMB == 2 ^ 15

Big == Seq(Nat)

Float == [m : Big, e : Int]

\* a quotient with its remainder, and a right shift with its sticky bit
Quotient == [q : Big, r : Nat]

Shifted == [q : Big, sticky : BOOLEAN]

BigOfNat[n \in Nat] == IF n = 0 THEN <<>> ELSE <<n % LIMB>> \o BigOfNat[n \div LIMB]

NatOfBig[a \in Big] == IF a = <<>> THEN 0 ELSE Head(a) + LIMB * NatOfBig[Tail(a)]

BigNorm[a \in Big] ==
    IF a # <<>> /\ a[Len(a)] = 0 THEN BigNorm[SubSeq(a, 1, Len(a) - 1)] ELSE a

BigAdd[a \in Big, b \in Big, c \in Nat] ==
    IF a = <<>> /\ b = <<>> THEN (IF c = 0 THEN <<>> ELSE <<c>>)
    ELSE LET s == (IF a = <<>> THEN 0 ELSE Head(a))
                  + (IF b = <<>> THEN 0 ELSE Head(b)) + c
         IN  <<s % LIMB>> \o BigAdd[IF a = <<>> THEN a ELSE Tail(a),
                                    IF b = <<>> THEN b ELSE Tail(b), s \div LIMB]

BigMulSmall[a \in Big, n \in Nat, c \in Nat] ==
    IF a = <<>> THEN (IF c = 0 THEN <<>> ELSE <<c>>)
    ELSE LET p == Head(a) * n + c
         IN  <<p % LIMB>> \o BigMulSmall[Tail(a), n, p \div LIMB]

BigMul[a \in Big, b \in Big] ==
    IF b = <<>> THEN <<>>
    ELSE BigAdd[BigMulSmall[a, Head(b), 0], <<0>> \o BigMul[a, Tail(b)], 0]

\* quotient and remainder by a divisor below LIMB: long division from the top
\* limb down, q holding the quotient limbs found so far
BigDivSmall[a \in Big, d \in Nat, r \in Nat, q \in Big] ==
    IF a = <<>> THEN [q |-> q, r |-> r]
    ELSE BigDivSmall[SubSeq(a, 1, Len(a) - 1), d, (r * LIMB + a[Len(a)]) % d,
                     <<(r * LIMB + a[Len(a)]) \div d>> \o q]

NatBitLength[n \in Nat] == IF n = 0 THEN 0 ELSE 1 + NatBitLength[n \div 2]

BigBitLength[a \in Big] ==
    IF BigNorm[a] = <<>> THEN 0
    ELSE 15 * (Len(BigNorm[a]) - 1) + NatBitLength[BigNorm[a][Len(BigNorm[a])]]

BigShiftLeft[a \in Big, k \in Nat] ==
    [i \in 1..(k \div 15) |-> 0] \o BigMulSmall[a, 2 ^ (k % 15), 0]

\* a shifted right by k bits, and whether a one bit was shifted out
BigShiftRight[a \in Big, k \in Nat] ==
    LET whole == k \div 15
        low   == SubSeq(a, 1, IF whole < Len(a) THEN whole ELSE Len(a))
        qr    == BigDivSmall[SubSeq(a, whole + 1, Len(a)), 2 ^ (k % 15), 0, <<>>]
    IN  [q |-> BigNorm[qr.q],
         sticky |-> qr.r # 0 \/ \E i \in 1..Len(low) : low[i] # 0]

\* The binary64 nearest to big * 2^e (plus a fraction of a unit when sticky):
\* the mantissa is cut to 53 bits, the bit below them decides, a tie goes to even.
RoundCarry[m \in Big, e \in Int] ==
    IF BigBitLength[m] > MANT_DIG
    THEN [m |-> BigNorm[BigDivSmall[m, 2, 0, <<>>].q], e |-> e + 1]
    ELSE [m |-> BigNorm[m], e |-> e]

RoundHalf[half \in Quotient, sticky \in BOOLEAN, e \in Int] ==
    RoundCarry[IF half.r = 1 /\ (sticky \/ half.q[1] % 2 = 1)
               THEN BigAdd[half.q, <<1>>, 0] ELSE half.q, e]

RoundShifted[sh \in Shifted, sticky \in BOOLEAN, e \in Int] ==
    RoundHalf[BigDivSmall[sh.q, 2, 0, <<>>], sh.sticky \/ sticky, e]

RoundLength[big \in Big, sticky \in BOOLEAN, e \in Int, L \in Nat] ==
    IF L = 0 THEN [m |-> <<>>, e |-> 0]
    ELSE IF L <= MANT_DIG
    THEN [m |-> BigNorm[BigShiftLeft[big, MANT_DIG - L]], e |-> e - (MANT_DIG - L)]
    ELSE RoundShifted[BigShiftRight[big, L - MANT_DIG - 1], sticky, e + (L - MANT_DIG)]

FloatRound[big \in Big, sticky \in BOOLEAN, e \in Int] ==
    RoundLength[big, sticky, e, BigBitLength[big]]

\* an int converted to float, as in  max_width * pct  and  pct * 100
FloatOfInt[n \in Nat] == FloatRound[BigOfNat[n], FALSE, 0]

FloatOfQuotient[qr \in Quotient, e \in Int] ==
    FloatRound[BigNorm[qr.q], qr.r # 0, e]

\* the float literal n/d for a decimal denominator d (0.45 is 45/100)
FloatOfDecimal[n \in Nat, d \in Nat] ==
    FloatOfQuotient[BigDivSmall[BigShiftLeft[BigOfNat[n], 75], d, 0, <<>>], -75]

FloatMul[a \in Float, b \in Float] == FloatRound[BigMul[a.m, b.m], FALSE, a.e + b.e]

\* int(a): truncation toward zero
FloatInt[a \in Float] ==
    IF a.e >= 0 THEN NatOfBig[BigShiftLeft[a.m, a.e]]
    ELSE NatOfBig[BigShiftRight[a.m, -a.e].q]

FloatIsPositive[a \in Float] == a.m # <<>>

NoFloat == [m |-> <<>>, e |-> 0]

(***************************************************************************)
(* Mobjects, animations and directives as the script writes them.          *)
(***************************************************************************)
Mobject(id, kind, text, font, color, width, sub, from, to) ==
    [ id |-> id, kind |-> kind, text |-> text, font |-> font, color |-> color,
      width |-> width, sub |-> sub, from |-> from, to |-> to, owner |-> "" ]

Text(id, text, font, color) == Mobject(id, "Text", text, font, color, NoFloat, <<>>, "", "")

RoundedRectangle(id, width, color) ==
    Mobject(id, "RoundedRectangle", "", 0, color, width, <<>>, "", "")

Circle(id, color) == Mobject(id, "Circle", "", 0, color, NoFloat, <<>>, "", "")

Arrow(id, from, to, color) == Mobject(id, "Arrow", "", 0, color, NoFloat, <<>>, from, to)

CurvedArrow(id, from, to, color) ==
    Mobject(id, "CurvedArrow", "", 0, color, NoFloat, <<>>, from, to)

Cross(id, over, color) == Mobject(id, "Cross", "", 0, color, NoFloat, <<>>, over, "")

VGroup(id, sub) == Mobject(id, "VGroup", "", 0, "", NoFloat, sub, "", "")

Group(id, sub) == Mobject(id, "Group", "", 0, "", NoFloat, sub, "", "")

\* logo.set_color_by_gradient(a, b)
Gradient(a, b) == a \o ".." \o b

Animation(kind, mob) == [kind |-> kind, mob |-> mob, parts |-> <<>>, all |-> FALSE]

Write(mob) == Animation("Write", mob)

FadeIn(mob) == Animation("FadeIn", mob)

Create(mob) == Animation("Create", mob)

GrowArrow(mob) == Animation("GrowArrow", mob)

GrowFromEdge(mob) == Animation("GrowFromEdge", mob)

Rotate(mob) == Animation("Rotate", mob)

\* mob.animate.shift(...)
AnimateShift(mob) == Animation("_MethodAnimation", mob)

FadeOut(mob) == Animation("FadeOut", mob)

\* FadeOut(Group(*self.mobjects)): the group is built from the stage when played
FadeOutAll(id) == [kind |-> "FadeOut", mob |-> id, parts |-> <<>>, all |-> TRUE]

LaggedStart(anims) == [kind |-> "LaggedStart", mob |-> "", parts |-> anims, all |-> FALSE]

Directive(op, proc, args, objs, anims, secs, color) ==
    [ op |-> op, proc |-> proc, args |-> args, objs |-> objs, anims |-> anims,
      secs |-> secs, color |-> color ]

\* one or more constructor calls (and the layout calls on them)
D_make(objs) == Directive("make", "", <<>>, objs, <<>>, 0, "")

\* self.play(*anims)
D_play(anims) == Directive("play", "", <<>>, <<>>, anims, 0, "")

\* self.wait(t), t in tenths of a second
D_wait(tenths) == Directive("wait", "", <<>>, <<>>, <<>>, tenths, "")

\* self.<proc>(*args)
D_call(proc, args) == Directive("call", proc, args, <<>>, <<>>, 0, "")

\* self.camera.background_color = color
D_background(color) == Directive("background", "", <<>>, <<>>, <<>>, 0, color)

Flat(ss) ==
    LET prefix[k \in 0..Len(ss)] == IF k = 0 THEN <<>> ELSE prefix[k - 1] \o ss[k]
    IN  prefix[Len(ss)]

\* the name of the i-th object a loop builds
Nth(prefix, i) == prefix \o ToString(i)

(***************************************************************************)
(* class NimOnboarding: the twelve scene procedures and the header helper. *)
(***************************************************************************)
WHITE == "#FFFFFF"

Dec(n, d) == FloatOfDecimal[n, d]

\* variant: the loop over adjacent boxes stops one pair early
ArrowCount_short(boxes) == Len(boxes) - 2

\* range(len(boxes) - 1): one arrow for each box that has a right neighbour
ArrowCount(boxes) == Len(boxes) - 1

\* lines 76-84
title_mobjects ==
    << Text("title.logo", "Nim", 96, Gradient(globals.NIM_BLUE, globals.NIM_PURPLE)),
       Text("title.tagline", "Money, Multiplied", globals.FONT_SUBHEADING, globals.NIM_GRAY),
       VGroup("title.group", <<"title.logo", "title.tagline">>) >>

\* variant: the final fade-out names the logo alone
play_title_leaky ==
    << D_make(title_mobjects),
       D_play(<<Write("title.logo")>>),
       D_play(<<FadeIn("title.tagline")>>),
       D_wait(15),
       D_play(<<FadeOut("title.logo")>>) >>

\* variant: the title scene starts the call-to-action scene before it has ended
play_title_nested ==
    << D_make(title_mobjects),
       D_play(<<Write("title.logo")>>),
       D_call("play_cta", <<>>),
       D_play(<<FadeIn("title.tagline")>>),
       D_wait(15),
       D_play(<<FadeOut("title.group")>>) >>

\* variant: the title scene clears the stage once more after its own fade-out
play_title_cleared_twice ==
    << D_make(title_mobjects),
       D_play(<<Write("title.logo")>>),
       D_play(<<FadeIn("title.tagline")>>),
       D_wait(15),
       D_play(<<FadeOut("title.group")>>),
       D_play(<<FadeOutAll("title.Group")>>) >>

\* variant: the hold before the fade-out is missing
play_title_nowait ==
    << D_make(title_mobjects),
       D_play(<<Write("title.logo")>>),
       D_play(<<FadeIn("title.tagline")>>),
       D_play(<<FadeOut("title.group")>>) >>

play_title ==
    << D_make(title_mobjects),
       D_play(<<Write("title.logo")>>),
       D_play(<<FadeIn("title.tagline")>>),
       D_wait(15),
       D_play(<<FadeOut("title.group")>>) >>

play_problem ==
    LET steps  == <<"Trading", "Budget", "Savings">>
        colors == <<globals.NIM_RED, globals.NIM_GRAY, globals.NIM_GRAY>>
        nboxes == IF Len(steps) < Len(colors) THEN Len(steps) ELSE Len(colors)
        boxes  == [i \in 1..nboxes |-> Nth("problem.group", i)]
        arrows == [i \in 1..ArrowCount(boxes) |-> Nth("problem.arrow", i)]
    IN  << D_make(<< Text("problem.title", "The Problem", globals.FONT_HEADING,
                          globals.NIM_RED) >>),
           D_play(<<Write("problem.title")>>),
           D_make(Flat([i \in 1..nboxes |->
                         << RoundedRectangle(Nth("problem.box", i), Dec(28, 10), colors[i]),
                            Text(Nth("problem.text", i), steps[i], globals.FONT_BODY, WHITE),
                            VGroup(boxes[i], <<Nth("problem.box", i), Nth("problem.text", i)>>)
                         >>])
                  \o << VGroup("problem.wrong_flow", boxes) >>
                  \o [i \in 1..ArrowCount(boxes) |->
                         Arrow(arrows[i], boxes[i], boxes[i + 1], globals.NIM_GRAY)]
                  \o << VGroup("problem.arrows", arrows) >>),
           D_play(<<LaggedStart([i \in 1..Len(boxes) |-> FadeIn(boxes[i])])>>),
           D_play(<<Create("problem.arrows")>>),
           D_make(<< Text("problem.anxiety", "This creates anxiety", globals.FONT_BODY,
                          globals.NIM_RED),
                     Text("problem.worry", "U+1F630", 36, WHITE),
                     VGroup("problem.anxiety_group", <<"problem.anxiety", "problem.worry">>) >>),
           D_play(<<FadeIn("problem.anxiety_group")>>),
           D_make(<< Cross("problem.x_mark", "problem.wrong_flow", globals.NIM_RED) >>),
           D_play(<<Create("problem.x_mark")>>),
           D_wait(10),
           D_play(<<FadeOutAll("problem.Group")>>) >>

play_solution ==
    LET pillar_data == << <<"1", "Stabilize", "Budget and cut waste", globals.NIM_BLUE>>,
                          <<"2", "Save", "Automate transfers", globals.NIM_GREEN>>,
                          <<"3", "Invest", "Only the surplus", globals.NIM_PURPLE>> >>
        pillars == [i \in 1..Len(pillar_data) |-> Nth("solution.pillar", i)]
        P(name, i) == Nth("solution." \o name, i)
    IN  << D_make(<< Text("solution.title", "The Nim Way", globals.FONT_HEADING,
                          globals.NIM_GREEN) >>),
           D_play(<<Write("solution.title")>>),
           D_make(Flat([i \in 1..Len(pillar_data) |->
                         << RoundedRectangle(P("box", i), Dec(32, 10), pillar_data[i][4]),
                            Circle(P("num_circle", i), pillar_data[i][4]),
                            Text(P("num_text", i), pillar_data[i][1], globals.FONT_BODY, WHITE),
                            VGroup(P("num_group", i), <<P("num_circle", i), P("num_text", i)>>),
                            Text(P("label_text", i), pillar_data[i][2],
                                 globals.FONT_SUBHEADING, WHITE),
                            Text(P("desc_text", i), pillar_data[i][3], globals.FONT_SMALL,
                                 globals.NIM_GRAY),
                            VGroup(pillars[i], <<P("box", i), P("num_group", i),
                                                 P("label_text", i), P("desc_text", i)>>)
                         >>])
                  \o << VGroup("solution.pillars_group", pillars) >>),
           D_play(<<LaggedStart([i \in 1..Len(pillars) |-> AnimateShift(pillars[i])])>>) >>
        \o Flat([i \in 1..(Len(pillars) - 1) |->
                  << D_make(<< Arrow(P("arrow", i), pillars[i], pillars[i + 1], WHITE) >>),
                     D_play(<<GrowArrow(P("arrow", i))>>) >>])
        \o << D_make(<< Text("solution.confidence", "This builds confidence",
                             globals.FONT_BODY, globals.NIM_GREEN),
                        Text("solution.happy", "U+1F60A", 36, WHITE),
                        VGroup("solution.confidence_group",
                               <<"solution.confidence", "solution.happy">>) >>),
              D_play(<<FadeIn("solution.confidence_group")>>),
              D_wait(15),
              D_play(<<FadeOutAll("solution.Group")>>) >>

\* variant: every arrow skips a node
NextNode_skipping(i, n) == (i + 2) % n

\* the node an arrow from node i ends at, nodes counted 0..n-1: (i + 1) % n
NextNode(i, n) == (i + 1) % n

\* The value of a name after a list comprehension whose loop variable has the
\* same name: the comprehension has a scope of its own, the name is untouched.
AfterComprehension(outer, items) == outer

\* variant: the colours of Budget and Subscriptions exchanged
journey_steps_data_recoloured ==
    << <<"Chat", globals.NIM_BLUE>>, <<"Budget", globals.NIM_ORANGE>>,
       <<"Subscriptions", globals.NIM_TEAL>>, <<"Savings", globals.NIM_GREEN>>,
       <<"Investing", globals.NIM_PURPLE>>, <<"Autopilot", globals.NIM_GRAY>> >>

journey_steps_data ==
    << <<"Chat", globals.NIM_BLUE>>, <<"Budget", globals.NIM_TEAL>>,
       <<"Subscriptions", globals.NIM_ORANGE>>, <<"Savings", globals.NIM_GREEN>>,
       <<"Investing", globals.NIM_PURPLE>>, <<"Autopilot", globals.NIM_GRAY>> >>

play_journey_overview ==
    LET steps_data == journey_steps_data
        n     == Len(steps_data)
        J(name, i) == Nth("journey." \o name, i)
        steps == [i \in 1..n |-> J("step", i)]
        \* members[i][1] is steps[i][0], the circle of node i
        members == [i \in 1..n |-> <<J("circle", i), J("label_text", i)>>]
    IN  << D_make(<< Text("journey.title", "Your Journey", globals.FONT_HEADING, WHITE) >>),
           D_play(<<Write("journey.title")>>),
           D_make(Flat([i \in 1..n |->
                         << Circle(J("circle", i), steps_data[i][2]),
                            Text(J("label_text", i), steps_data[i][1], globals.FONT_CAPTION,
                                 WHITE),
                            VGroup(steps[i], members[i]) >>])
                  \o << Circle("journey.center_circle", globals.NIM_BLUE),
                        Text("journey.center_text", "Nim", globals.FONT_SUBHEADING, WHITE),
                        VGroup("journey.center",
                               <<"journey.center_circle", "journey.center_text">>) >>),
           D_play(<<FadeIn("journey.center")>>),
           D_play(<<LaggedStart([i \in 1..Len(steps) |-> FadeIn(steps[i])])>>),
           \* range(n) is 0..n-1: arrow i+1 here is the loop's arrow i
           D_make([k \in 1..n |->
                     LET i == k - 1
                     IN  CurvedArrow(J("arrow", k), members[i + 1][1],
                                     members[NextNode(i, n) + 1][1], WHITE)]),
           D_play(<<LaggedStart([k \in 1..n |-> Create(J("arrow", k))])>>),
           D_wait(15),
           D_play(<<FadeOutAll("journey.Group")>>) >>

\* variant: the header shows the subtitle where the title belongs
play_step_intro_swapped(number, title, subtitle, color) ==
    LET H(name) == "intro" \o number \o "." \o name
    IN  << D_make(<< Circle(H("circle"), color),
                     Text(H("num"), number, globals.FONT_SUBHEADING, WHITE),
                     VGroup(H("num_group"), <<H("circle"), H("num")>>),
                     Text(H("title_text"), subtitle, globals.FONT_HEADING, WHITE),
                     Text(H("sub_text"), subtitle, globals.FONT_BODY, globals.NIM_GRAY),
                     VGroup(H("header"), <<H("num_group"), H("title_text"), H("sub_text")>>)
                  >>),
           D_play(<<FadeIn(H("num_group")), FadeIn(H("title_text"))>>),
           D_play(<<FadeIn(H("sub_text"))>>),
           D_wait(2) >>

\* variant: the header fades out again before the helper returns
play_step_intro_brief(number, title, subtitle, color) ==
    LET H(name) == "intro" \o number \o "." \o name
    IN  << D_make(<< Circle(H("circle"), color),
                     Text(H("num"), number, globals.FONT_SUBHEADING, WHITE),
                     VGroup(H("num_group"), <<H("circle"), H("num")>>),
                     Text(H("title_text"), title, globals.FONT_HEADING, WHITE),
                     Text(H("sub_text"), subtitle, globals.FONT_BODY, globals.NIM_GRAY),
                     VGroup(H("header"), <<H("num_group"), H("title_text"), H("sub_text")>>)
                  >>),
           D_play(<<FadeIn(H("num_group")), FadeIn(H("title_text"))>>),
           D_play(<<FadeIn(H("sub_text"))>>),
           D_wait(2),
           D_play(<<FadeOut(H("header"))>>) >>

play_step_intro(number, title, subtitle, color) ==
    LET H(name) == "intro" \o number \o "." \o name
    IN  << D_make(<< Circle(H("circle"), color),
                     Text(H("num"), number, globals.FONT_SUBHEADING, WHITE),
                     VGroup(H("num_group"), <<H("circle"), H("num")>>),
                     Text(H("title_text"), title, globals.FONT_HEADING, WHITE),
                     Text(H("sub_text"), subtitle, globals.FONT_BODY, globals.NIM_GRAY),
                     VGroup(H("header"), <<H("num_group"), H("title_text"), H("sub_text")>>)
                  >>),
           D_play(<<FadeIn(H("num_group")), FadeIn(H("title_text"))>>),
           D_play(<<FadeIn(H("sub_text"))>>),
           D_wait(2) >>

play_step_chat ==
    << D_call("play_step_intro",
              <<"1", "Chat with Nim", "Turn intent into a plan", globals.NIM_BLUE>>),
       D_make(<< RoundedRectangle("chat.chat_bg", Dec(55, 10), globals.NIM_BLUE),
                 RoundedRectangle("chat.user_bubble", FloatOfInt[4], globals.NIM_BLUE),
                 Text("chat.user_text", "I want to save GBP500 per month",
                      globals.FONT_CAPTION, WHITE),
                 VGroup("chat.user_msg", <<"chat.user_bubble", "chat.user_text">>),
                 RoundedRectangle("chat.nim_bubble", Dec(45, 10), "#3A3A3C"),
                 Text("chat.nim_line1", "Great goal! Quick questions:", globals.FONT_CAPTION,
                      WHITE),
                 Text("chat.nim_line2", "1. When do you get paid?", globals.FONT_CAPTION,
                      globals.NIM_GRAY),
                 Text("chat.nim_line3", "2. What's your risk comfort?", globals.FONT_CAPTION,
                      globals.NIM_GRAY),
                 VGroup("chat.nim_lines",
                        <<"chat.nim_line1", "chat.nim_line2", "chat.nim_line3">>),
                 VGroup("chat.nim_msg", <<"chat.nim_bubble", "chat.nim_lines">>),
                 VGroup("chat.chat", <<"chat.chat_bg", "chat.user_msg", "chat.nim_msg">>) >>),
       D_play(<<FadeIn("chat.chat_bg")>>),
       D_play(<<FadeIn("chat.user_msg")>>),
       D_wait(3),
       D_play(<<FadeIn("chat.nim_msg")>>),
       D_make(<< Text("chat.output_title", "Output", globals.FONT_BODY, globals.NIM_GREEN),
                 Text("chat.output1", "v  Goals defined", globals.FONT_SMALL, WHITE),
                 Text("chat.output2", "v  Rules created", globals.FONT_SMALL, WHITE),
                 Text("chat.output3", "v  Accounts linked", globals.FONT_SMALL, WHITE),
                 VGroup("chat.outputs", <<"chat.output1", "chat.output2", "chat.output3">>) >>),
       D_play(<<Write("chat.output_title")>>),
       D_play(<<LaggedStart([i \in 1..3 |-> FadeIn(Nth("chat.output", i))])>>),
       D_wait(10),
       D_play(<<FadeOutAll("chat.Group")>>) >>

\* variant: the first amount rounded to the nearest hundred
budget_categories_rounded ==
    << <<"Needs", 45, globals.NIM_BLUE, "GBP1,100">>,
       <<"Wants", 25, globals.NIM_PURPLE, "GBP600">>,
       <<"Bills", 20, globals.NIM_ORANGE, "GBP480">>,
       <<"Goals", 10, globals.NIM_GREEN, "GBP240">> >>

\* variant: fractions 0.29 and 0.41 in place of 0.45 and 0.25
budget_categories_uneven ==
    << <<"Needs", 29, globals.NIM_BLUE, "GBP1,080">>,
       <<"Wants", 41, globals.NIM_PURPLE, "GBP600">>,
       <<"Bills", 20, globals.NIM_ORANGE, "GBP480">>,
       <<"Goals", 10, globals.NIM_GREEN, "GBP240">> >>

\* (name, pct as a literal in hundredths, colour, amount)
budget_categories ==
    << <<"Needs", 45, globals.NIM_BLUE, "GBP1,080">>,
       <<"Wants", 25, globals.NIM_PURPLE, "GBP600">>,
       <<"Bills", 20, globals.NIM_ORANGE, "GBP480">>,
       <<"Goals", 10, globals.NIM_GREEN, "GBP240">> >>

\* f"{int(pct * 100)}%"
PercentLabel(pct) == ToString(FloatInt[FloatMul[pct, FloatOfInt[100]]]) \o "%"

play_step_budget ==
    LET categories == budget_categories
        max_width  == 6
        B(name, i) == Nth("budget." \o name, i)
        pct(i)     == Dec(categories[i][2], 100)
        row(i)     == <<B("label", i), B("bar_bg", i), B("bar_fill", i), B("pct_text", i),
                        B("amount_text", i)>>
    IN  << D_call("play_step_intro",
                  <<"2", "Budget Planner", "Make the plan real", globals.NIM_TEAL>>),
           D_make(Flat([i \in 1..Len(categories) |->
                         << Text(B("label", i), categories[i][1], globals.FONT_SMALL, WHITE),
                            RoundedRectangle(B("bar_bg", i), FloatOfInt[max_width], "#3A3A3C"),
                            RoundedRectangle(B("bar_fill", i),
                                             FloatMul[FloatOfInt[max_width], pct(i)],
                                             categories[i][3]),
                            Text(B("pct_text", i), PercentLabel(pct(i)), globals.FONT_CAPTION,
                                 categories[i][3]),
                            Text(B("amount_text", i), categories[i][4], globals.FONT_CAPTION,
                                 globals.NIM_GRAY),
                            VGroup(B("row", i), row(i)) >>])
                  \o << VGroup("budget.bars",
                               [i \in 1..Len(categories) |-> B("row", i)]) >>) >>
        \o Flat([i \in 1..Len(categories) |->
                  << D_play(<<FadeIn(row(i)[1]), FadeIn(row(i)[2])>>),
                     D_play(<<GrowFromEdge(row(i)[3]), FadeIn(row(i)[4]),
                              FadeIn(row(i)[5])>>) >>])
        \o << D_make(<< RoundedRectangle("budget.guardrails_box", Dec(35, 10),
                                         globals.NIM_ORANGE),
                        Text("budget.guardrails_title", "Guardrails", globals.FONT_BODY,
                             globals.NIM_ORANGE),
                        Text("budget.guardrail1", "Soft alerts at 80%", globals.FONT_CAPTION,
                             WHITE),
                        Text("budget.guardrail2", "Hard stops optional", globals.FONT_CAPTION,
                             WHITE),
                        Text("budget.guardrail3", "Real-time tracking", globals.FONT_CAPTION,
                             WHITE),
                        VGroup("budget.guardrails", <<"budget.guardrail1", "budget.guardrail2",
                                                      "budget.guardrail3">>) >>),
              D_play(<<FadeIn("budget.guardrails_box"), Write("budget.guardrails_title")>>),
              D_play(<<LaggedStart([i \in 1..3 |-> FadeIn(Nth("budget.guardrail", i))])>>),
              D_wait(10),
              D_play(<<FadeOutAll("budget.Group")>>) >>

play_step_subscriptions ==
    LET subs_data ==
            << <<"Netflix", "GBP15.99/mo", "Used 3 days ago", "Keep", globals.NIM_GREEN>>,
               <<"Headspace", "GBP12.99/mo", "Not used in 67 days", "Cancel?",
                 globals.NIM_RED>>,
               <<"Spotify", "GBP10.99/mo", "Price increased 10%", "Review",
                 globals.NIM_ORANGE>> >>
        S(name, i) == Nth("subscriptions." \o name, i)
        cards == [i \in 1..Len(subs_data) |-> S("card_group", i)]
    IN  << D_call("play_step_intro",
                  <<"3", "Subscriptions", "Kill silent drains", globals.NIM_ORANGE>>),
           D_make(Flat([i \in 1..Len(subs_data) |->
                         << RoundedRectangle(S("card", i), FloatOfInt[5], subs_data[i][5]),
                            Text(S("name_text", i), subs_data[i][1], globals.FONT_BODY, WHITE),
                            Text(S("price_text", i), subs_data[i][2], globals.FONT_SMALL,
                                 subs_data[i][5]),
                            Text(S("usage_text", i), subs_data[i][3], globals.FONT_CAPTION,
                                 globals.NIM_GRAY),
                            Text(S("action_text", i), subs_data[i][4], globals.FONT_CAPTION,
                                 subs_data[i][5]),
                            VGroup(cards[i], <<S("card", i), S("name_text", i),
                                               S("price_text", i), S("usage_text", i),
                                               S("action_text", i)>>) >>])
                  \o << VGroup("subscriptions.cards", cards) >>),
           D_play(<<LaggedStart([i \in 1..Len(cards) |-> FadeIn(cards[i])])>>),
           D_make(<< RoundedRectangle("subscriptions.savings_box", Dec(35, 10),
                                      globals.NIM_GREEN),
                     Text("subscriptions.savings1", "Potential Savings", globals.FONT_SMALL,
                          globals.NIM_GREEN),
                     Text("subscriptions.savings2", "GBP156", globals.FONT_TITLE, WHITE),
                     Text("subscriptions.savings3", "per year", globals.FONT_SMALL,
                          globals.NIM_GRAY),
                     VGroup("subscriptions.savings_content",
                            <<"subscriptions.savings1", "subscriptions.savings2",
                              "subscriptions.savings3">>),
                     VGroup("subscriptions.savings",
                            <<"subscriptions.savings_box", "subscriptions.savings_content">>)
                  >>),
           D_play(<<FadeIn("subscriptions.savings")>>),
           D_wait(10),
           D_play(<<FadeOutAll("subscriptions.Group")>>) >>

\* (stage, duration, progress as a literal in tenths)
savings_stages ==
    << <<"Stage 1", "2 weeks", 10>>, <<"Stage 2", "1 month", 6>>,
       <<"Stage 3", "3 months", 0>> >>

\* the fill of one emergency-fund row (lines 630-641)
SavingsFill(id, progress) ==
    IF FloatIsPositive[progress]
    THEN RoundedRectangle(id, FloatMul[FloatOfInt[4], progress], globals.NIM_GREEN)
    ELSE VGroup(id, <<>>)

\* variant: the test for a started stage comes before the test for a complete one
SavingsProgText_reordered(id, progress) ==
    IF FloatIsPositive[progress]
    THEN Text(id, PercentLabel(progress), globals.FONT_CAPTION, globals.NIM_GREEN)
    ELSE IF progress = Dec(10, 10)
    THEN Text(id, "Complete", globals.FONT_CAPTION, globals.NIM_GREEN)
    ELSE Text(id, "Pending", globals.FONT_CAPTION, globals.NIM_GRAY)

\* the progress indicator of one emergency-fund row (lines 650-659)
SavingsProgText(id, progress) ==
    IF progress = Dec(10, 10)
    THEN Text(id, "Complete", globals.FONT_CAPTION, globals.NIM_GREEN)
    ELSE IF FloatIsPositive[progress]
    THEN Text(id, PercentLabel(progress), globals.FONT_CAPTION, globals.NIM_GREEN)
    ELSE Text(id, "Pending", globals.FONT_CAPTION, globals.NIM_GRAY)

play_step_savings ==
    LET rules_data == << <<"Payday sweep", "Move GBP500 to savings">>,
                         <<"Round-ups", "Save spare change">>,
                         <<"Under budget", "Sweep 30% of surplus">> >>
        stages == savings_stages
        S(name, i) == Nth("savings." \o name, i)
        rules  == [i \in 1..Len(rules_data) |-> S("rule", i)]
        ladder == [i \in 1..Len(stages) |-> S("row", i)]
    IN  << D_call("play_step_intro",
                  <<"4", "Smart Savings", "Automate the wins", globals.NIM_GREEN>>),
           D_make(<< Text("savings.rules_title", "Your Rules", globals.FONT_BODY, WHITE) >>
                  \o Flat([i \in 1..Len(rules_data) |->
                         << Text(S("rule_title", i), rules_data[i][1], globals.FONT_SMALL,
                                 globals.NIM_GREEN),
                            Text(S("rule_desc", i), rules_data[i][2], globals.FONT_CAPTION,
                                 globals.NIM_GRAY),
                            VGroup(rules[i], <<S("rule_title", i), S("rule_desc", i)>>) >>])
                  \o << VGroup("savings.rules", rules) >>),
           D_play(<<Write("savings.rules_title")>>),
           D_play(<<LaggedStart([i \in 1..Len(rules) |-> FadeIn(rules[i])])>>),
           D_make(<< Text("savings.ladder_title", "Emergency Fund", globals.FONT_BODY,
                          globals.NIM_GREEN) >>
                  \o Flat([i \in 1..Len(stages) |->
                         LET progress == Dec(stages[i][3], 10)
                         IN  << RoundedRectangle(S("bg", i), FloatOfInt[4], "#3A3A3C"),
                                SavingsFill(S("fill", i), progress),
                                Text(S("stage_label", i),
                                     stages[i][1] \o ": " \o stages[i][2],
                                     globals.FONT_CAPTION, WHITE),
                                SavingsProgText(S("prog_text", i), progress),
                                VGroup(ladder[i], <<S("stage_label", i), S("bg", i),
                                                    S("fill", i), S("prog_text", i)>>) >>])
                  \o << VGroup("savings.ladder", ladder) >>),
           D_play(<<Write("savings.ladder_title")>>),
           D_play(<<LaggedStart([i \in 1..Len(ladder) |-> FadeIn(ladder[i])])>>),
           D_wait(10),
           D_play(<<FadeOutAll("savings.Group")>>) >>

play_step_trading ==
    << D_call("play_step_intro",
              <<"5", "Trading Terminal", "Invest the surplus", globals.NIM_PURPLE>>),
       D_make(<< Text("trading.key_msg", "Only available after your safety net is built",
                      globals.FONT_SMALL, globals.NIM_ORANGE) >>),
       D_play(<<Write("trading.key_msg")>>),
       D_make(<< RoundedRectangle("trading.available_box", Dec(45, 10), globals.NIM_GREEN),
                 Text("trading.available1", "Available to invest", globals.FONT_SMALL,
                      globals.NIM_GRAY),
                 Text("trading.available2", "GBP125 / week", globals.FONT_HEADING,
                      globals.NIM_GREEN),
                 VGroup("trading.available_content",
                        <<"trading.available1", "trading.available2">>),
                 VGroup("trading.available",
                        <<"trading.available_box", "trading.available_content">>) >>),
       D_play(<<FadeIn("trading.available")>>),
       D_make(<< Text("trading.split_title", "Portfolio Split", globals.FONT_BODY, WHITE),
                 RoundedRectangle("trading.core_box", Dec(35, 10), globals.NIM_BLUE),
                 Text("trading.core1", "Core Portfolio", globals.FONT_SMALL, globals.NIM_BLUE),
                 Text("trading.core2", "80% - Long term, low risk", globals.FONT_CAPTION,
                      globals.NIM_GRAY),
                 VGroup("trading.core_content", <<"trading.core1", "trading.core2">>),
                 VGroup("trading.core", <<"trading.core_box", "trading.core_content">>),
                 RoundedRectangle("trading.explore_box", Dec(35, 10), globals.NIM_PURPLE),
                 Text("trading.explore1", "Explore", globals.FONT_SMALL, globals.NIM_PURPLE),
                 Text("trading.explore2", "20% - Active trades, optional",
                      globals.FONT_CAPTION, globals.NIM_GRAY),
                 VGroup("trading.explore_content", <<"trading.explore1", "trading.explore2">>),
                 VGroup("trading.explore",
                        <<"trading.explore_box", "trading.explore_content">>),
                 VGroup("trading.portfolios", <<"trading.core", "trading.explore">>) >>),
       D_play(<<Write("trading.split_title")>>),
       D_play(<<FadeIn("trading.core"), FadeIn("trading.explore")>>),
       D_wait(10),
       D_play(<<FadeOutAll("trading.Group")>>) >>

play_step_autopilot ==
    LET frequencies ==
            << <<"Daily", "Silent monitoring", "Fraud alerts only", globals.NIM_RED>>,
               <<"Weekly", "60 second digest", "Approve 2 actions", globals.NIM_BLUE>>,
               <<"Monthly", "Full review", "Rebalance check", globals.NIM_GREEN>> >>
        A(name, i) == Nth("autopilot." \o name, i)
        cards == [i \in 1..Len(frequencies) |-> A("card_group", i)]
    IN  << D_call("play_step_intro",
                  <<"6", "Autopilot", "Minimal attention needed", globals.NIM_GRAY>>),
           D_make(Flat([i \in 1..Len(frequencies) |->
                         << RoundedRectangle(A("card", i), Dec(32, 10), frequencies[i][4]),
                            Text(A("label_text", i), frequencies[i][1], globals.FONT_BODY,
                                 frequencies[i][4]),
                            Text(A("line1_text", i), frequencies[i][2], globals.FONT_SMALL,
                                 WHITE),
                            Text(A("line2_text", i), frequencies[i][3], globals.FONT_CAPTION,
                                 globals.NIM_GRAY),
                            VGroup(A("lines", i), <<A("line1_text", i), A("line2_text", i)>>),
                            VGroup(cards[i], <<A("card", i), A("label_text", i),
                                               A("lines", i)>>) >>])
                  \o << VGroup("autopilot.cards", cards) >>),
           D_play(<<LaggedStart([i \in 1..Len(cards) |-> FadeIn(cards[i])])>>),
           D_wait(15),
           D_play(<<FadeOutAll("autopilot.Group")>>) >>

flywheel_steps ==
    <<"Stable Budget", "Freed Cash", "Auto Savings", "Safe Surplus", "Investing", "Wealth">>

play_flywheel ==
    LET steps == flywheel_steps
        n     == Len(steps)
        F(name, i) == Nth("flywheel." \o name, i)
        nodes == [i \in 1..n |-> F("node", i)]
        \* members[i][1] is nodes[i][0], the circle of node i
        members == [i \in 1..n |-> <<F("circle", i), F("text", i)>>]
        \* n as range(n) of line 857 reads it, after  [... for n in nodes]
        n_arrows == AfterComprehension(n, nodes)
        arrows == [k \in 1..n_arrows |-> F("arrow", k)]
    IN  << D_make(<< Text("flywheel.title", "The Flywheel Effect", globals.FONT_HEADING,
                          WHITE) >>),
           D_play(<<Write("flywheel.title")>>),
           D_make(Flat([i \in 1..n |->
                         << Circle(F("circle", i), globals.NIM_BLUE),
                            Text(F("text", i), steps[i], globals.FONT_CAPTION, WHITE),
                            VGroup(nodes[i], members[i]) >>])
                  \o << VGroup("flywheel.flywheel", nodes) >>),
           D_play(<<LaggedStart([i \in 1..Len(nodes) |-> FadeIn(nodes[i])])>>),
           D_make([k \in 1..n_arrows |->
                     LET i == k - 1
                     IN  CurvedArrow(arrows[k], members[i + 1][1],
                                     members[NextNode(i, n_arrows) + 1][1],
                                     globals.NIM_GREEN)]) >>
        \o [k \in 1..Len(arrows) |-> D_play(<<Create(arrows[k])>>)]
        \o << D_make(<< VGroup("flywheel.all_elements", <<"flywheel.flywheel">> \o arrows) >>),
              D_play(<<Rotate("flywheel.all_elements")>>),
              D_wait(10),
              D_play(<<FadeOutAll("flywheel.Group")>>) >>

play_cta ==
    << D_make(<< Text("cta.logo", "Nim", 72, Gradient(globals.NIM_BLUE, globals.NIM_PURPLE)),
                 Text("cta.tagline", "Money, Multiplied", globals.FONT_SUBHEADING,
                      globals.NIM_GREEN),
                 Text("cta.cta", "Start your journey today", globals.FONT_BODY,
                      globals.NIM_GRAY),
                 VGroup("cta.group", <<"cta.logo", "cta.tagline", "cta.cta">>) >>),
       D_play(<<FadeIn("cta.logo")>>),
       D_play(<<FadeIn("cta.tagline")>>),
       D_play(<<FadeIn("cta.cta")>>),
       D_wait(20),
       D_play(<<FadeOut("cta.group")>>) >>

\* variant: two step scenes called in the other order
NimOnboarding_construct_swapped ==
    << D_background(globals.NIM_DARK),
       D_call("play_title", <<>>),
       D_call("play_problem", <<>>),
       D_call("play_solution", <<>>),
       D_call("play_journey_overview", <<>>),
       D_call("play_step_chat", <<>>),
       D_call("play_step_budget", <<>>),
       D_call("play_step_savings", <<>>),
       D_call("play_step_subscriptions", <<>>),
       D_call("play_step_trading", <<>>),
       D_call("play_step_autopilot", <<>>),
       D_call("play_flywheel", <<>>),
       D_call("play_cta", <<>>) >>

\* variant: construct ends before the call to action
NimOnboarding_construct_short ==
    << D_background(globals.NIM_DARK),
       D_call("play_title", <<>>),
       D_call("play_problem", <<>>),
       D_call("play_solution", <<>>),
       D_call("play_journey_overview", <<>>),
       D_call("play_step_chat", <<>>),
       D_call("play_step_budget", <<>>),
       D_call("play_step_subscriptions", <<>>),
       D_call("play_step_savings", <<>>),
       D_call("play_step_trading", <<>>),
       D_call("play_step_autopilot", <<>>),
       D_call("play_flywheel", <<>>) >>

NimOnboarding_construct ==
    << D_background(globals.NIM_DARK),
       D_call("play_title", <<>>),
       D_call("play_problem", <<>>),
       D_call("play_solution", <<>>),
       D_call("play_journey_overview", <<>>),
       D_call("play_step_chat", <<>>),
       D_call("play_step_budget", <<>>),
       D_call("play_step_subscriptions", <<>>),
       D_call("play_step_savings", <<>>),
       D_call("play_step_trading", <<>>),
       D_call("play_step_autopilot", <<>>),
       D_call("play_flywheel", <<>>),
       D_call("play_cta", <<>>) >>

(***************************************************************************)
(* class NimFlowDiagram: one construct method, no scene procedures.        *)
(***************************************************************************)
\* variant: the diagram ends with a clearing fade-out, as the onboarding scenes do
NimFlowDiagram_construct_cleared ==
    LET steps == << <<"Chat", globals.NIM_BLUE>>, <<"Budget", globals.NIM_TEAL>>,
                    <<"Subs", globals.NIM_ORANGE>>, <<"Save", globals.NIM_GREEN>>,
                    <<"Invest", globals.NIM_PURPLE>> >>
        D(name, i) == Nth("flow." \o name, i)
        boxes  == [i \in 1..Len(steps) |-> D("group", i)]
        arrows == [i \in 1..ArrowCount(boxes) |-> D("arrow", i)]
    IN  << D_background(globals.NIM_DARK),
           D_make(<< Text("flow.title", "The Nim Journey", globals.FONT_HEADING, WHITE) >>),
           D_play(<<Write("flow.title")>>),
           D_make(Flat([i \in 1..Len(steps) |->
                         << RoundedRectangle(D("box", i), Dec(18, 10), steps[i][2]),
                            Text(D("name_text", i), steps[i][1], globals.FONT_SMALL, WHITE),
                            VGroup(boxes[i], <<D("box", i), D("name_text", i)>>) >>])
                  \o << VGroup("flow.flow", boxes) >>),
           D_play(<<LaggedStart([i \in 1..Len(boxes) |-> FadeIn(boxes[i])])>>),
           D_make([i \in 1..ArrowCount(boxes) |->
                     Arrow(arrows[i], boxes[i], boxes[i + 1], WHITE)]),
           D_play(<<LaggedStart([i \in 1..Len(arrows) |-> GrowArrow(arrows[i])])>>),
           D_make(<< CurvedArrow("flow.loop_arrow", boxes[Len(boxes)], boxes[1],
                                 globals.NIM_GRAY),
                     Text("flow.loop_label", "Autopilot", globals.FONT_CAPTION,
                          globals.NIM_GRAY) >>),
           D_play(<<Create("flow.loop_arrow"), FadeIn("flow.loop_label")>>),
           D_wait(20),
           D_play(<<FadeOutAll("flow.Group")>>) >>

NimFlowDiagram_construct ==
    LET steps == << <<"Chat", globals.NIM_BLUE>>, <<"Budget", globals.NIM_TEAL>>,
                    <<"Subs", globals.NIM_ORANGE>>, <<"Save", globals.NIM_GREEN>>,
                    <<"Invest", globals.NIM_PURPLE>> >>
        D(name, i) == Nth("flow." \o name, i)
        boxes  == [i \in 1..Len(steps) |-> D("group", i)]
        arrows == [i \in 1..ArrowCount(boxes) |-> D("arrow", i)]
    IN  << D_background(globals.NIM_DARK),
           D_make(<< Text("flow.title", "The Nim Journey", globals.FONT_HEADING, WHITE) >>),
           D_play(<<Write("flow.title")>>),
           D_make(Flat([i \in 1..Len(steps) |->
                         << RoundedRectangle(D("box", i), Dec(18, 10), steps[i][2]),
                            Text(D("name_text", i), steps[i][1], globals.FONT_SMALL, WHITE),
                            VGroup(boxes[i], <<D("box", i), D("name_text", i)>>) >>])
                  \o << VGroup("flow.flow", boxes) >>),
           D_play(<<LaggedStart([i \in 1..Len(boxes) |-> FadeIn(boxes[i])])>>),
           D_make([i \in 1..ArrowCount(boxes) |->
                     Arrow(arrows[i], boxes[i], boxes[i + 1], WHITE)]),
           D_play(<<LaggedStart([i \in 1..Len(arrows) |-> GrowArrow(arrows[i])])>>),
           D_make(<< CurvedArrow("flow.loop_arrow", boxes[Len(boxes)], boxes[1],
                                 globals.NIM_GRAY),
                     Text("flow.loop_label", "Autopilot", globals.FONT_CAPTION,
                          globals.NIM_GRAY) >>),
           D_play(<<Create("flow.loop_arrow"), FadeIn("flow.loop_label")>>),
           D_wait(20) >>

(***************************************************************************)
(* The interpreter: frames, the body of a procedure, the directive at pc.  *)
(***************************************************************************)
SceneClasses == {"NimOnboarding", "NimFlowDiagram"}

\* the twelve scene procedures of NimOnboarding (lines 74-904)
SceneProcs ==
    { "play_title", "play_problem", "play_solution", "play_journey_overview",
      "play_step_chat", "play_step_budget", "play_step_subscriptions",
      "play_step_savings", "play_step_trading", "play_step_autopilot",
      "play_flywheel", "play_cta" }

Frame(proc, args) == [proc |-> proc, pc |-> 1, args |-> args]

Body(f) ==
    CASE f.proc = "NimOnboarding.construct"  -> NimOnboarding_construct
      [] f.proc = "NimFlowDiagram.construct" -> NimFlowDiagram_construct
      [] f.proc = "play_title"               -> play_title
      [] f.proc = "play_problem"             -> play_problem
      [] f.proc = "play_solution"            -> play_solution
      [] f.proc = "play_journey_overview"    -> play_journey_overview
      [] f.proc = "play_step_chat"           -> play_step_chat
      [] f.proc = "play_step_budget"         -> play_step_budget
      [] f.proc = "play_step_subscriptions"  -> play_step_subscriptions
      [] f.proc = "play_step_savings"        -> play_step_savings
      [] f.proc = "play_step_trading"        -> play_step_trading
      [] f.proc = "play_step_autopilot"      -> play_step_autopilot
      [] f.proc = "play_flywheel"            -> play_flywheel
      [] f.proc = "play_cta"                 -> play_cta
      [] f.proc = "play_step_intro"          ->
             play_step_intro(f.args[1], f.args[2], f.args[3], f.args[4])

Top == stack[Len(stack)]

\* the directive at pc, or the end of the body
Fetch(body, pc) ==
    IF pc > Len(body) THEN Directive("end", "", <<>>, <<>>, <<>>, 0, "") ELSE body[pc]

Cur == Fetch(Body(Top), Top.pc)

\* the scene procedure whose frame is innermost on the stack ("" in construct)
RECURSIVE SceneOf(_)
SceneOf(st) ==
    IF st = <<>> THEN ""
    ELSE IF st[Len(st)].proc \in SceneProcs THEN st[Len(st)].proc
    ELSE SceneOf(SubSeq(st, 1, Len(st) - 1))

ActiveScene == SceneOf(stack)

Advance(st) == [st EXCEPT ![Len(st)].pc = @ + 1]

Event(d) == [ op |-> d.op, scene |-> ActiveScene, proc |-> Top.proc, callee |-> d.proc,
              args |-> d.args, anims |-> d.anims, secs |-> d.secs ]

ReturnEvent == [ op |-> "return", scene |-> ActiveScene, proc |-> Top.proc, callee |-> "",
                 args |-> <<>>, anims |-> <<>>, secs |-> 0 ]

NoException == [proc |-> "", pc |-> 0]

(***************************************************************************)
(* The library's Scene: get_family, add, remove, play.                     *)
(***************************************************************************)
\* Mobject.get_family: the mobject and everything below it
RECURSIVE Family(_, _)
Family(h, m) == {m} \cup UNION {Family(h, h[m].sub[i]) : i \in 1..Len(h[m].sub)}

\* Scene.get_mobject_family_members
FamilyMembers(h, list) == UNION {Family(h, list[i]) : i \in 1..Len(list)}

\* Scene.get_restructured_mobject_list: drop to_remove, breaking up any group
\* that holds one of them into the members that stay
RECURSIVE Restructured(_, _, _)
Restructured(h, list, to_remove) ==
    IF list = <<>> THEN <<>>
    ELSE LET mob       == Head(list)
             intersect == to_remove \cap Family(h, mob)
         IN  (IF mob \in to_remove THEN <<>>
              ELSE IF intersect # {} THEN Restructured(h, h[mob].sub, intersect)
              ELSE <<mob>>)
             \o Restructured(h, Tail(list), to_remove)

\* Scene.add(mob): its whole family leaves the list, then mob is appended
SceneAdd(h, list, mob) == Restructured(h, list, Family(h, mob)) \o <<mob>>

\* Scene.remove(mob)
SceneRemove(h, list, mob) == Restructured(h, list, {mob})

IsIntroducer(kind) == kind \in {"Write", "FadeIn", "Create", "GrowArrow", "GrowFromEdge"}

IsRemover(kind) == kind = "FadeOut"

\* The animations one self.play call runs.  LaggedStart runs its members; whether
\* the library also wraps their mobjects in a group of its own does not change
\* which mobjects are on stage, so the members are played directly.
Flatten(anims) ==
    Flat([i \in 1..Len(anims) |->
            IF anims[i].kind = "LaggedStart" THEN anims[i].parts ELSE <<anims[i]>>])

\* Scene.add_mobjects_from_animations / Animation._setup_scene: an animated
\* mobject that is not on stage yet is added
AddAnimated(h, list, anims, introducers) ==
    LET from[l \in Seq(STRING), k \in 1..(Len(anims) + 1)] ==
            IF k > Len(anims) THEN l
            ELSE from[IF IsIntroducer(anims[k].kind) = introducers
                         /\ anims[k].mob \notin FamilyMembers(h, l)
                      THEN SceneAdd(h, l, anims[k].mob) ELSE l, k + 1]
    IN  from[list, 1]

\* Animation.clean_up_from_scene: a remover takes its mobject off the stage
CleanUp(h, list, anims) ==
    LET from[l \in Seq(STRING), k \in 1..(Len(anims) + 1)] ==
            IF k > Len(anims) THEN l
            ELSE from[IF IsRemover(anims[k].kind)
                      THEN SceneRemove(h, l, anims[k].mob) ELSE l, k + 1]
    IN  from[list, 1]

\* Group(*self.mobjects), evaluated as the argument of the play call
StageGroups(anims, list) ==
    LET sel == SelectSeq(anims, LAMBDA a : a.all)
    IN  [i \in 1..Len(sel) |-> Group(sel[i].mob, list)]

\* self.mobjects after self.play(*anims)
Played(h, list, anims) ==
    CleanUp(h, AddAnimated(h, AddAnimated(h, list, anims, FALSE), anims, TRUE), anims)

\* the heap after the constructor calls of one make directive; each object is
\* owned by the scene procedure that is running
RECURSIVE Constructed(_, _, _)
Constructed(h, objs, owner) ==
    IF objs = <<>> THEN h
    ELSE Constructed((Head(objs).id :> [Head(objs) EXCEPT !.owner = owner]) @@ h,
                     Tail(objs), owner)

(***************************************************************************)
(* Actions: one per kind of directive, plus return, completion and the     *)
(* failure of a library call.                                              *)
(***************************************************************************)
Init ==
    /\ scene_class \in SceneClasses
    /\ globals = ModuleGlobals
    /\ background = "#000000"
    /\ heap = <<>>
    /\ mobjects = <<>>
    /\ stack = <<Frame(scene_class \o ".construct", <<>>)>>
    /\ status = "running"
    /\ exc = NoException
    /\ log = <<>>

Running == status = "running" /\ stack # <<>>

\* variant: the assignment the other way round, NIM_DARK = self.camera.background_color
DoBackground_reversed(d) ==
    /\ d.op = "background"
    /\ globals' = [globals EXCEPT !.NIM_DARK = background]
    /\ stack' = Advance(stack)
    /\ log' = Append(log, Event(d))
    /\ UNCHANGED <<scene_class, background, heap, mobjects, status, exc>>

\* self.camera.background_color = NIM_DARK
DoBackground(d) ==
    /\ d.op = "background"
    /\ background' = d.color
    /\ stack' = Advance(stack)
    /\ log' = Append(log, Event(d))
    /\ UNCHANGED <<scene_class, globals, heap, mobjects, status, exc>>

SetBackground == Running /\ \E d \in {Cur} : DoBackground(d)

\* self.play_xxx(...): a new frame; the caller resumes after the return
DoCall(d) ==
    /\ d.op = "call"
    /\ stack' = Append(stack, Frame(d.proc, d.args))
    /\ log' = Append(log, Event(d))
    /\ UNCHANGED <<scene_class, globals, background, heap, mobjects, status, exc>>

Call == Running /\ \E d \in {Cur} : DoCall(d)

\* the end of a method body other than construct
DoReturn(d) ==
    /\ d.op = "end" /\ Len(stack) > 1
    /\ stack' = Advance(SubSeq(stack, 1, Len(stack) - 1))
    /\ log' = Append(log, ReturnEvent)
    /\ UNCHANGED <<scene_class, globals, background, heap, mobjects, status, exc>>

Return == Running /\ \E d \in {Cur} : DoReturn(d)

\* construct returns: the render is complete
DoFinish(d) ==
    /\ d.op = "end" /\ Len(stack) = 1
    /\ stack' = <<>>
    /\ status' = "done"
    /\ log' = Append(log, ReturnEvent)
    /\ UNCHANGED <<scene_class, globals, background, heap, mobjects, exc>>

Finish == Running /\ \E d \in {Cur} : DoFinish(d)

\* constructor calls: new objects on the heap, nothing on stage
DoMake(d) ==
    /\ d.op = "make"
    /\ heap' = Constructed(heap, d.objs, ActiveScene)
    /\ stack' = Advance(stack)
    /\ log' = Append(log, Event(d))
    /\ UNCHANGED <<scene_class, globals, background, mobjects, status, exc>>

Make == Running /\ \E d \in {Cur} : DoMake(d)

\* self.play(...), run to its end
DoPlay(d) ==
    /\ d.op = "play"
    /\ heap' = Constructed(heap, StageGroups(Flatten(d.anims), mobjects), ActiveScene)
    /\ mobjects' = Played(heap', mobjects, Flatten(d.anims))
    /\ stack' = Advance(stack)
    /\ log' = Append(log, Event(d))
    /\ UNCHANGED <<scene_class, globals, background, status, exc>>

Play == Running /\ \E d \in {Cur} : DoPlay(d)

\* self.wait(t)
DoWait(d) ==
    /\ d.op = "wait"
    /\ stack' = Advance(stack)
    /\ log' = Append(log, Event(d))
    /\ UNCHANGED <<scene_class, globals, background, heap, mobjects, status, exc>>

Wait == Running /\ \E d \in {Cur} : DoWait(d)

\* variant: the failure is caught and the script carries on with the next line
DoRaise_swallowed(d) ==
    /\ d.op \in {"make", "play", "wait"}
    /\ exc' = [proc |-> Top.proc, pc |-> Top.pc]
    /\ stack' = Advance(stack)
    /\ UNCHANGED <<scene_class, globals, background, heap, mobjects, status, log>>

\* A library call raises.  No method of the script has a try block, so the
\* exception unwinds every frame and the render ends.
DoRaise(d) ==
    /\ d.op \in {"make", "play", "wait"}
    /\ exc' = [proc |-> Top.proc, pc |-> Top.pc]
    /\ stack' = <<>>
    /\ status' = "aborted"
    /\ UNCHANGED <<scene_class, globals, background, heap, mobjects, log>>

Raise == Running /\ \E d \in {Cur} : DoRaise(d)

NextNoRaise == SetBackground \/ Call \/ Return \/ Finish \/ Make \/ Play \/ Wait

Next == NextNoRaise \/ Raise

Spec == Init /\ [][Next]_vars

\* the library calls succeed and the interpreter keeps running the script
FairSpec == Init /\ [][NextNoRaise]_vars /\ WF_vars(NextNoRaise)

(***************************************************************************)
(* Properties.                                                             *)
(***************************************************************************)
IsPrefix(s, t) == Len(s) <= Len(t) /\ SubSeq(t, 1, Len(s)) = s

Last(s) == s[Len(s)]

Onboarding == scene_class = "NimOnboarding"

\* Title, Problem, Solution, Journey Overview, Chat, Budget, Subscriptions,
\* Savings, Trading, Autopilot, Flywheel, Call to Action
DocumentedOrder ==
    << "play_title", "play_problem", "play_solution", "play_journey_overview",
       "play_step_chat", "play_step_budget", "play_step_subscriptions",
       "play_step_savings", "play_step_trading", "play_step_autopilot",
       "play_flywheel", "play_cta" >>

\* the procedures construct has called so far, in call order
ScenesStarted ==
    LET calls == SelectSeq(log, LAMBDA e : e.op = "call" /\ e.proc = "NimOnboarding.construct")
    IN  [i \in 1..Len(calls) |-> calls[i].callee]

\* the scene procedures that have returned so far, in return order
ScenesReturned ==
    LET rets == SelectSeq(log, LAMBDA e : e.op = "return" /\ e.proc \in SceneProcs)
    IN  [i \in 1..Len(rets) |-> rets[i].proc]

\* the mobjects on stage: the family of self.mobjects
StageOf(h, list) == FamilyMembers(h, list)

Stage == StageOf(heap, mobjects)

\* C1: at every point of every run of NimOnboarding the scene procedures started
\* so far are an initial part of the documented order Title, Problem, Solution,
\* Journey Overview, Chat, Budget, Subscriptions, Savings, Trading, Autopilot,
\* Flywheel, Call to Action, and a completed run has started all twelve.
C1_SceneOrder ==
    Onboarding =>
        /\ IsPrefix(ScenesStarted, DocumentedOrder)
        /\ status = "done" => ScenesStarted = DocumentedOrder

C1_Witness == Onboarding /\ status = "done" /\ Len(ScenesStarted) = 12

\* C2: whenever no scene procedure of NimOnboarding is running (before the first,
\* between two scenes, after the last) nothing is on stage: every mobject a scene
\* added is off stage when the scene returns.
C2_StageEmptyAtBoundary ==
    (Onboarding /\ status # "aborted" /\ ActiveScene = "") =>
        /\ mobjects = <<>>
        /\ \A id \in DOMAIN heap : id \notin Stage

\* the Savings scene, whose rows hold an empty group, has just returned
C2_Witness ==
    /\ Onboarding /\ log # <<>>
    /\ Last(log).op = "return" /\ Last(log).proc = "play_step_savings"
    /\ mobjects = <<>>
    /\ \E id \in DOMAIN heap : heap[id].owner = "play_step_savings"

\* C3: when no library call fails, a run of NimOnboarding ends: construct returns
\* with no exception raised, the twelve scenes having each been started once and
\* returned once, in the documented order.
C3_Terminates ==
    Onboarding =>
        <>( /\ status = "done"
            /\ exc = NoException
            /\ ScenesStarted = DocumentedOrder
            /\ ScenesReturned = DocumentedOrder )

C3_Witness ==
    Onboarding /\ status = "done" /\ exc = NoException /\ Len(ScenesReturned) = 12

\* the six step scenes, in step order
StepScenes == SubSeq(DocumentedOrder, 5, 10)

\* the step titles of the method docstrings "Step k: <title>."
StepDocstrings ==
    << "Chat with Nim", "Budget Planner", "Subscriptions", "Smart Savings",
       "Trading Terminal", "Autopilot" >>

IsIntroCall(e) == e.op = "call" /\ e.callee = "play_step_intro"

IsStepCall(e) ==
    e.op = "call" /\ e.proc = "NimOnboarding.construct"
    /\ \E k \in DOMAIN StepScenes : e.callee = StepScenes[k]

\* the calls of the header helper so far, in call order
IntroCalls == SelectSeq(log, IsIntroCall)

\* the texts of the Text mobjects on stage
StageTexts == {heap[m].text : m \in {x \in Stage : heap[x].kind = "Text"}}

\* C4: in a run of NimOnboarding the header helper play_step_intro is called only
\* as the first directive of a step scene, so once per step scene and never by
\* another scene; the k-th call comes from the k-th step scene and passes the
\* ordinal k and the title of step k; the Subscriptions scene passes "3",
\* "Subscriptions", "Kill silent drains"; and when the helper returns, the texts on
\* stage are exactly the number, title and subtitle it was passed.
C4_StepIntro ==
    Onboarding =>
        /\ \A i \in DOMAIN log :
              /\ IsIntroCall(log[i]) =>
                    /\ i > 1 /\ IsStepCall(log[i - 1])
                    /\ log[i].proc = log[i - 1].callee
              /\ (IsStepCall(log[i]) /\ i < Len(log)) =>
                    IsIntroCall(log[i + 1]) /\ log[i + 1].proc = log[i].callee
        /\ (log # <<>> /\ IsStepCall(Last(log)) /\ status = "running") =>
              Cur.op = "call" /\ Cur.proc = "play_step_intro"
        /\ Len(IntroCalls) <= Len(StepScenes)
        /\ \A k \in DOMAIN IntroCalls :
              /\ IntroCalls[k].proc = StepScenes[k]
              /\ IntroCalls[k].args[1] = ToString(k)
              /\ IntroCalls[k].args[2] = StepDocstrings[k]
              /\ IntroCalls[k].proc = "play_step_subscriptions" =>
                    SubSeq(IntroCalls[k].args, 1, 3)
                        = <<"3", "Subscriptions", "Kill silent drains">>
        /\ status = "done" => Len(IntroCalls) = Len(StepScenes)
        /\ (log # <<>> /\ Last(log).op = "return" /\ Last(log).proc = "play_step_intro") =>
              StageTexts = { Last(IntroCalls).args[j] : j \in 1..3 }

\* the helper has returned into the Subscriptions scene with its header on stage
C4_Witness ==
    /\ Onboarding /\ log # <<>>
    /\ Last(log).op = "return" /\ Last(log).proc = "play_step_intro"
    /\ ActiveScene = "play_step_subscriptions"
    /\ StageTexts = {"3", "Subscriptions", "Kill silent drains"}

\* the place of a scene procedure in the documented order
Position(scene) == CHOOSE k \in DOMAIN DocumentedOrder : DocumentedOrder[k] = scene

IsDirective(e) == e.op \in {"make", "play", "wait"}

\* the places in the log of the make, play and wait directives
DirectiveIndices == SelectSeq([i \in DOMAIN log |-> i], LAMBDA i : IsDirective(log[i]))

\* C5: at most one scene procedure of NimOnboarding has a frame on the stack, and
\* the directives are issued scene after scene: where two consecutive directives
\* belong to different scenes, the second scene is later in the documented order
\* and the first scene has returned in between, so every directive of a scene
\* precedes every directive of a later scene.
C5_Sequential ==
    Onboarding =>
        /\ Cardinality({i \in DOMAIN stack : stack[i].proc \in SceneProcs}) <= 1
        /\ \A at \in {DirectiveIndices} : \A n \in 1..(Len(at) - 1) :
              /\ log[at[n]].scene \in SceneProcs
              /\ log[at[n]].scene # log[at[n + 1]].scene =>
                    /\ Position(log[at[n]].scene) < Position(log[at[n + 1]].scene)
                    /\ \E k \in (at[n] + 1)..(at[n + 1] - 1) :
                          log[k].op = "return" /\ log[k].proc = log[at[n]].scene

\* the Problem scene is animating after the directives of the Title scene
C5_Witness ==
    /\ Onboarding /\ ActiveScene = "play_problem"
    /\ log # <<>> /\ Last(log).op = "play" /\ Last(log).scene = "play_problem"
    /\ \E i \in DOMAIN log : log[i].op = "wait" /\ log[i].scene = "play_title"

\* C6: the step in which a library call fails ends the run: the stack is unwound,
\* nothing is logged or put on stage by it, and from the aborted state no further
\* step is taken, so no later directive or scene runs, the failed directive is
\* not tried again and the run is never complete; a complete run saw no failure.
C6_FailureAborts ==
    /\ [][ /\ exc' # exc =>
                /\ exc = NoException /\ status = "running"
                /\ status' = "aborted" /\ stack' = <<>>
                /\ log' = log /\ mobjects' = mobjects /\ heap' = heap
           /\ status = "aborted" => UNCHANGED vars ]_vars
    /\ [](status = "done" => exc = NoException)
    /\ [](status = "aborted" <=> exc # NoException)

\* a call inside the header helper failed while elements were on stage
C6_Witness ==
    /\ status = "aborted" /\ exc.proc = "play_step_intro" /\ stack = <<>>
    /\ mobjects # <<>>
    /\ log # <<>> /\ Last(log).scene = "play_step_trading"

\* C7: in a run of NimOnboarding a mobject comes on stage only while the scene
\* that constructed it is the running scene, and leaves the stage only in the
\* last directive of that scene, which leaves the stage empty; so nothing leaves
\* mid-scene and nothing returns to the stage in a later scene.  All that is on
\* stage belongs to the running scene.
C7_Ownership ==
    /\ [][ Onboarding =>
           \A m \in DOMAIN heap' :
              /\ (m \in Stage' /\ (m \notin DOMAIN heap \/ m \notin Stage)) =>
                    heap'[m].owner \in SceneProcs /\ heap'[m].owner = ActiveScene
              /\ (m \in DOMAIN heap /\ m \in Stage /\ m \notin Stage') =>
                    /\ Top.proc = heap[m].owner
                    /\ Top.pc = Len(Body(Top))
                    /\ Stage' = {} ]_vars
    /\ []((Onboarding /\ status = "running") =>
              \A m \in Stage : heap[m].owner = ActiveScene)

\* the Chat scene has just cleared a stage that held its own elements and the
\* header the helper built for it
C7_Witness ==
    /\ Onboarding /\ status = "running" /\ ActiveScene = "play_step_chat"
    /\ Cur.op = "end" /\ Stage = {}
    /\ \E m \in DOMAIN heap : heap[m].owner = "play_step_chat" /\ heap[m].text = "Chat with Nim"
    /\ \E m \in DOMAIN heap : heap[m].owner = "play_step_chat" /\ heap[m].kind = "Group"

\* the percentages the Budget step shows
BudgetPercentages == <<45, 25, 20, 10>>

RECURSIVE Sum(_)
Sum(s) == IF s = <<>> THEN 0 ELSE Head(s) + Sum(Tail(s))

\* C8: once the Budget step has built its rows, the rows are Needs, Wants, Bills
\* and Goals with the labels 45%, 25%, 20% and 10%, which sum to 100; in each row
\* the fill bar is as wide as the background bar times the row's fraction, and
\* that same fraction times 100 is exactly the number on the label.
C8_BudgetPercentages ==
    "budget.bars" \in DOMAIN heap =>
        /\ Len(heap["budget.bars"].sub) = Len(BudgetPercentages)
        /\ Sum(BudgetPercentages) = 100
        /\ <<"Needs", "Wants", "Bills", "Goals">>
              = [i \in DOMAIN BudgetPercentages |-> heap[Nth("budget.label", i)].text]
        /\ \A i \in DOMAIN BudgetPercentages :
              \A fraction \in {FloatOfDecimal[budget_categories[i][2], 100]} :
                 /\ heap[Nth("budget.pct_text", i)].text
                       = ToString(BudgetPercentages[i]) \o "%"
                 /\ FloatMul[fraction, FloatOfInt[100]] = FloatOfInt[BudgetPercentages[i]]
                 /\ FloatInt[FloatMul[fraction, FloatOfInt[100]]] = BudgetPercentages[i]
                 /\ heap[Nth("budget.bar_fill", i)].width
                       = FloatMul[heap[Nth("budget.bar_bg", i)].width, fraction]

\* the four rows are on stage, bars grown and labels shown
C8_Witness ==
    /\ ActiveScene = "play_step_budget"
    /\ \A i \in 1..4 : {Nth("budget.bar_fill", i), Nth("budget.pct_text", i)} \subseteq Stage
    /\ heap["budget.pct_text1"].text = "45%"

\* C9: at every point of every run, of either scene class, the module-level
\* colours, font sizes and spacings have the values they were given at import.
C9_ConstantsUnchanged == globals = ModuleGlobals

\* a run is complete, the background having been set from NIM_DARK and every
\* scene procedure and the helper having read the constants
C9_Witness ==
    /\ Onboarding /\ status = "done" /\ background = ModuleGlobals.NIM_DARK
    /\ Len(IntroCalls) = 6 /\ globals.NIM_DARK = "#1C1C1E"

\* a play directive made of fade-outs
IsClear(e) ==
    e.op = "play" /\ e.anims # <<>> /\ \A i \in DOMAIN e.anims : e.anims[i].kind = "FadeOut"

\* C10: in a run of NimOnboarding a scene procedure returns only straight after a
\* fade-out, every fade-out comes straight after a wait of the same scene and is
\* followed by nothing but the return of that scene, a scene begins by
\* constructing (directly or through the header helper), and after the fade-out
\* the stage is empty.
C10_WaitThenClear ==
    Onboarding =>
        /\ \A i \in DOMAIN log :
              /\ (log[i].op = "return" /\ log[i].proc \in SceneProcs) =>
                    i > 1 /\ IsClear(log[i - 1]) /\ log[i - 1].proc = log[i].proc
              /\ IsClear(log[i]) =>
                    /\ log[i].proc \in SceneProcs
                    /\ i > 1 /\ log[i - 1].op = "wait" /\ log[i - 1].proc = log[i].proc
                    /\ i < Len(log) =>
                          log[i + 1].op = "return" /\ log[i + 1].proc = log[i].proc
              /\ (log[i].op = "call" /\ log[i].callee \in SceneProcs /\ i < Len(log)) =>
                    log[i + 1].op = "make" \/ IsIntroCall(log[i + 1])
        /\ (log # <<>> /\ IsClear(Last(log)) /\ status = "running") =>
              Cur.op = "end" /\ mobjects = <<>> /\ Stage = {}

\* the Autopilot scene has returned after its wait and fade-out
C10_Witness ==
    /\ Onboarding /\ Len(log) > 2
    /\ Last(log).op = "return" /\ Last(log).proc = "play_step_autopilot"
    /\ IsClear(log[Len(log) - 1]) /\ log[Len(log) - 2].op = "wait"

\* the number of nodes of the two circular diagrams
CycleNodes == 6

\* the curved arrows a scene has constructed
CurvedArrowsOf(scene) ==
    {a \in DOMAIN heap : heap[a].kind = "CurvedArrow" /\ heap[a].owner = scene}

\* the node reached from node c by following k arrows of the set
RECURSIVE Follow(_, _, _)
Follow(arrows, c, k) ==
    IF k = 0 THEN c
    ELSE \* the arrow leaving the node reached so far
         LET at == Follow(arrows, c, k - 1)
         IN  heap[CHOOSE a \in arrows : heap[a].from = at].to

\* the arrows of one scene are one directed cycle through the circles of the
\* nodes prefix1 .. prefixN, arrow i from node i to node i + 1, the last to the first
IsCycle(scene, prefix, arrow) ==
    \A arrows \in {CurvedArrowsOf(scene)} :
    \A circle \in {[i \in 1..CycleNodes |-> heap[Nth(prefix, i)].sub[1]]} :
        /\ Nth(prefix, CycleNodes + 1) \notin DOMAIN heap
        /\ Cardinality({circle[i] : i \in 1..CycleNodes}) = CycleNodes
        /\ arrows = {Nth(arrow, i) : i \in 1..CycleNodes}
        /\ Cardinality(arrows) = CycleNodes
        /\ \A i \in 1..CycleNodes :
              /\ heap[circle[i]].kind = "Circle"
              /\ heap[Nth(arrow, i)].from = circle[i]
              /\ heap[Nth(arrow, i)].to = circle[(i % CycleNodes) + 1]
              /\ Cardinality({a \in arrows : heap[a].from = circle[i]}) = 1
              /\ Cardinality({a \in arrows : heap[a].to = circle[i]}) = 1
        /\ {Follow(arrows, circle[1], k) : k \in 0..(CycleNodes - 1)}
              = {circle[i] : i \in 1..CycleNodes}
        /\ Follow(arrows, circle[1], CycleNodes) = circle[1]

\* C11: once the Journey Overview scene has built its arrows, and once the
\* Flywheel scene has built its arrows, there are exactly six of them over six
\* nodes, arrow i runs from node i to node i + 1 and the sixth back to the first,
\* every node has one arrow out and one arrow in, and following the arrows from
\* the first node passes through all six nodes and returns to it.
C11_ArrowCycle ==
    /\ CurvedArrowsOf("play_journey_overview") # {} =>
          IsCycle("play_journey_overview", "journey.step", "journey.arrow")
    /\ CurvedArrowsOf("play_flywheel") # {} =>
          IsCycle("play_flywheel", "flywheel.node", "flywheel.arrow")

\* the Flywheel scene rotates its six nodes and six arrows, all on stage, the
\* arrows of the Journey Overview having been built earlier in the run
C11_Witness ==
    /\ ActiveScene = "play_flywheel"
    /\ log # <<>> /\ Last(log).op = "play" /\ Last(log).anims[1].kind = "Rotate"
    /\ CurvedArrowsOf("play_flywheel") \subseteq Stage
    /\ Cardinality(CurvedArrowsOf("play_flywheel")) = 6
    /\ Cardinality(CurvedArrowsOf("play_journey_overview")) = 6

\* the amounts the Budget step shows, in pounds
BudgetAmounts == <<1080, 600, 480, 240>>

\* three digits, zero-padded
ThreeDigits(n) ==
    (IF n < 10 THEN "00" ELSE IF n < 100 THEN "0" ELSE "") \o ToString(n)

\* an amount of pounds as the script writes it: thousands separated by a comma
RECURSIVE Grouped(_)
Grouped(n) ==
    IF n < 1000 THEN ToString(n)
    ELSE Grouped(n \div 1000) \o "," \o ThreeDigits(n % 1000)

\* C12: once the Budget step has built its rows, the amount texts read 1,080, 600,
\* 480 and 240 pounds; these sum to 2400, and each amount is the row's percentage
\* (the int(pct * 100) of its fraction: 45, 25, 20, 10) of that one total.
C12_BudgetAmounts ==
    "budget.bars" \in DOMAIN heap =>
        \A total \in {Sum(BudgetAmounts)} :
            /\ total = 2400
            /\ Len(heap["budget.bars"].sub) = Len(BudgetAmounts)
            /\ \A i \in DOMAIN BudgetAmounts :
                  /\ heap[Nth("budget.amount_text", i)].text
                        = "GBP" \o Grouped(BudgetAmounts[i])
                  /\ Nth("budget.amount_text", i) \in Family(heap, Nth("budget.row", i))
                  /\ 100 * BudgetAmounts[i]
                        = total * FloatInt[FloatMul[FloatOfDecimal[budget_categories[i][2], 100],
                                                    FloatOfInt[100]]]
                  /\ 100 * BudgetAmounts[i] = total * BudgetPercentages[i]

\* the four amounts are on stage beside their bars
C12_Witness ==
    /\ ActiveScene = "play_step_budget"
    /\ \A i \in 1..4 : {Nth("budget.amount_text", i), Nth("budget.bar_fill", i)} \subseteq Stage
    /\ heap["budget.amount_text1"].text = "GBP1,080"
    /\ heap["budget.amount_text4"].text = "GBP240"

\* the label under which the overview shows each step scene
OverviewLabels ==
    << <<"play_step_chat", "Chat">>, <<"play_step_budget", "Budget">>,
       <<"play_step_subscriptions", "Subscriptions">>, <<"play_step_savings", "Savings">>,
       <<"play_step_trading", "Investing">>, <<"play_step_autopilot", "Autopilot">> >>

\* the nodes the Journey Overview has built: node i is its circle and its label
OverviewNodes ==
    [i \in 1..Cardinality({k \in 1..Len(OverviewLabels) :
                              Nth("journey.step", k) \in DOMAIN heap}) |->
        [ label  |-> heap[heap[Nth("journey.step", i)].sub[2]].text,
          colour |-> heap[heap[Nth("journey.step", i)].sub[1]].color ]]

\* C13: once the Journey Overview has built its nodes there are six of them, the
\* i-th carrying the overview label of the i-th step scene that construct calls
\* (Chat, Budget, Subscriptions, Savings, Investing for Trading, Autopilot); and
\* the i-th call of play_step_intro, made by the i-th step scene, passes the
\* colour of the i-th node, which the number badge of the header then has.
C13_OverviewMatchesSteps ==
    (Onboarding /\ "journey.center" \in DOMAIN heap) =>
        \A nodes \in {OverviewNodes} :
            /\ Len(nodes) = Len(StepScenes)
            /\ Nth("journey.step", Len(StepScenes) + 1) \notin DOMAIN heap
            /\ \A i \in DOMAIN nodes :
                  /\ OverviewLabels[i][1] = StepScenes[i]
                  /\ nodes[i].label = OverviewLabels[i][2]
            /\ \A k \in DOMAIN IntroCalls :
                  /\ IntroCalls[k].proc = StepScenes[k]
                  /\ IntroCalls[k].args[4] = nodes[k].colour
                  /\ \A badge \in {"intro" \o IntroCalls[k].args[1] \o ".circle"} :
                        badge \in DOMAIN heap => heap[badge].color = nodes[k].colour

\* the last step scene, Autopilot, has shown its header in the colour of node six
C13_Witness ==
    /\ Onboarding /\ ActiveScene = "play_step_autopilot"
    /\ Len(IntroCalls) = 6
    /\ "intro6.circle" \in Stage
    /\ heap["intro6.circle"].color = heap["journey.circle6"].color
    /\ heap["journey.label_text5"].text = "Investing"

\* the status labels a percentage can take for a progress given in tenths
IsPercentLabel(text) == \E p \in 0..100 : text = ToString(p) \o "%"

IsStatusLabel(text) == text \in {"Complete", "Pending"} \/ IsPercentLabel(text)

\* C14: once the Savings step has built its ladder, each of the three rows has the
\* four members stage label, background bar, fill and status, exactly one of them
\* a status label; the status reads "Complete" exactly when the stage's progress
\* is 1, a percentage (int(progress * 100)) exactly when it lies strictly between
\* 0 and 1, and "Pending" exactly when it is 0; and the fill is a bar of positive
\* width exactly when the progress is above 0, an empty group otherwise.
C14_SavingsStatus ==
    "savings.ladder" \in DOMAIN heap =>
        /\ Len(heap["savings.ladder"].sub) = Len(savings_stages)
        /\ \A i \in DOMAIN savings_stages :
              \A row \in {heap[heap["savings.ladder"].sub[i]].sub} :
              \A tenths \in {savings_stages[i][3]} :
                 /\ Len(row) = 4
                 /\ row = << Nth("savings.stage_label", i), Nth("savings.bg", i),
                             Nth("savings.fill", i), Nth("savings.prog_text", i) >>
                 /\ heap[row[1]].text = savings_stages[i][1] \o ": " \o savings_stages[i][2]
                 /\ heap[row[2]].kind = "RoundedRectangle"
                 /\ {k \in 1..4 : heap[row[k]].kind = "Text" /\ IsStatusLabel(heap[row[k]].text)}
                       = {4}
                 /\ heap[row[4]].text = "Complete" <=> tenths = 10
                 /\ heap[row[4]].text = "Pending" <=> tenths = 0
                 /\ IsPercentLabel(heap[row[4]].text) <=> (0 < tenths /\ tenths < 10)
                 /\ (0 < tenths /\ tenths < 10) =>
                       heap[row[4]].text = ToString(10 * tenths) \o "%"
                 /\ (heap[row[3]].kind = "RoundedRectangle"
                        /\ FloatIsPositive[heap[row[3]].width]) <=> tenths > 0
                 /\ (heap[row[3]].kind = "VGroup" /\ heap[row[3]].sub = <<>>) <=> tenths = 0
        /\ {savings_stages[i][3] : i \in DOMAIN savings_stages} = {10, 6, 0}

\* the three rows are on stage: one complete, one at 60%, one pending with an
\* empty fill
C14_Witness ==
    /\ ActiveScene = "play_step_savings"
    /\ {"savings.prog_text1", "savings.prog_text2", "savings.prog_text3", "savings.fill3"}
          \subseteq Stage
    /\ heap["savings.prog_text1"].text = "Complete"
    /\ heap["savings.prog_text2"].text = "60%"
    /\ heap["savings.prog_text3"].text = "Pending"
    /\ heap["savings.fill3"].sub = <<>>

\* a play directive whose argument is FadeOut(Group(*self.mobjects))
IsClearAll(e) == e.op = "play" /\ \E i \in DOMAIN e.anims : e.anims[i].all

\* the scenes that have issued the clear-everything directive so far
ClearAllScenes == {log[i].scene : i \in {j \in DOMAIN log : IsClearAll(log[j])}}

\* C15: whenever the next directive is FadeOut(Group(*self.mobjects)), the stage
\* holds at least one mobject; in a complete run of NimOnboarding the directive
\* has been issued by ten scenes, every scene but Title and Call to Action, once
\* each.
C15_ClearNeverEmpty ==
    /\ (status = "running" /\ IsClearAll(Cur)) => mobjects # <<>> /\ Stage # {}
    /\ (Onboarding /\ status = "done") =>
          /\ ClearAllScenes = SceneProcs \ {"play_title", "play_cta"}
          /\ Cardinality(ClearAllScenes) = 10
          /\ Cardinality({j \in DOMAIN log : IsClearAll(log[j])}) = 10

\* the Autopilot scene is about to clear a stage that holds its header and cards
C15_Witness ==
    /\ status = "running" /\ ActiveScene = "play_step_autopilot"
    /\ IsClearAll(Cur)
    /\ Len(mobjects) > 1
    /\ "intro6.title_text" \in Stage

\* the straight arrows constructed under an owner ("" is NimFlowDiagram.construct)
ArrowsOf(owner) == {a \in DOMAIN heap : heap[a].kind = "Arrow" /\ heap[a].owner = owner}

\* the arrows of the set join each box to the next one and nothing else
IsChain(arrows, boxes) ==
    /\ Cardinality(arrows) = Len(boxes) - 1
    /\ \A i \in 1..(Len(boxes) - 1) :
          Cardinality({a \in arrows : heap[a].from = boxes[i] /\ heap[a].to = boxes[i + 1]}) = 1
    /\ \A a \in arrows : heap[a].from # boxes[Len(boxes)] /\ heap[a].to # boxes[1]

\* C16: once the Problem scene has built its arrows it has 3 boxes and 2 arrows,
\* one from each box to the next and none from the last; once NimFlowDiagram has
\* built its arrows it has 5 boxes and 4 such arrows, and once it has built the
\* loop arrow that is its only curved arrow and runs from the last box to the
\* first.
C16_LinearFlows ==
    /\ "problem.arrows" \in DOMAIN heap =>
          /\ Len(heap["problem.wrong_flow"].sub) = 3
          /\ Len(heap["problem.arrows"].sub) = 2
          /\ ArrowsOf("play_problem") = {heap["problem.arrows"].sub[i] : i \in 1..2}
          /\ IsChain(ArrowsOf("play_problem"), heap["problem.wrong_flow"].sub)
          /\ CurvedArrowsOf("play_problem") = {}
    /\ (scene_class = "NimFlowDiagram" /\ ArrowsOf("") # {}) =>
          /\ Len(heap["flow.flow"].sub) = 5
          /\ Cardinality(ArrowsOf("")) = 4
          /\ IsChain(ArrowsOf(""), heap["flow.flow"].sub)
    /\ (scene_class = "NimFlowDiagram" /\ CurvedArrowsOf("") # {}) =>
          /\ CurvedArrowsOf("") = {"flow.loop_arrow"}
          /\ heap["flow.loop_arrow"].from = heap["flow.flow"].sub[5]
          /\ heap["flow.loop_arrow"].to = heap["flow.flow"].sub[1]
          /\ Cardinality(ArrowsOf("")) = 4

\* NimFlowDiagram has drawn its four forward arrows and its loop arrow
C16_Witness ==
    /\ scene_class = "NimFlowDiagram" /\ status = "running" /\ Cur.op = "wait"
    /\ Cardinality(ArrowsOf("")) = 4
    /\ ArrowsOf("") \cup {"flow.loop_arrow"} \subseteq Stage

\* what NimFlowDiagram puts on stage: title, five boxes, four arrows, loop arrow
\* and loop label
FlowElements ==
    {"flow.title", "flow.loop_arrow", "flow.loop_label"}
        \cup {Nth("flow.group", i) : i \in 1..5} \cup {Nth("flow.arrow", i) : i \in 1..4}

IsFadeOut(e) == e.op = "play" /\ \E i \in DOMAIN e.anims : e.anims[i].kind = "FadeOut"

\* C17: a run of NimFlowDiagram plays no fade-out and nothing ever leaves its
\* stage; when construct returns, straight after the final wait, the top-level
\* mobjects on stage are exactly the title, the five boxes, the four arrows, the
\* loop arrow and the loop label, so the stage is not empty.
C17_FlowDiagramKeepsStage ==
    /\ [](scene_class = "NimFlowDiagram" =>
            /\ \A i \in DOMAIN log : ~IsFadeOut(log[i])
            /\ (status = "running" => ~IsFadeOut(Cur))
            /\ status = "done" =>
                  /\ {mobjects[i] : i \in DOMAIN mobjects} = FlowElements
                  /\ Len(mobjects) = Cardinality(FlowElements)
                  /\ Stage # {}
                  /\ Last(log).op = "return" /\ log[Len(log) - 1].op = "wait")
    /\ [][scene_class = "NimFlowDiagram" => Stage \subseteq Stage']_vars

\* construct of NimFlowDiagram has returned with its twelve elements on stage
C17_Witness ==
    /\ scene_class = "NimFlowDiagram" /\ status = "done"
    /\ Len(mobjects) = 12
    /\ FlowElements \subseteq Stage

====
